---- MODULE Spec2Model ----
(***************************************************************************)
(* Model of the SIEVE cache of sieve-go (src/cache.go).                    *)
(*                                                                         *)
(* The cache is a Go struct {capacity, size, q, keysMap, hand}.  q is a    *)
(* container/list doubly linked list of *list.Element; keysMap and hand    *)
(* hold pointers to elements.  Pointers are modelled as element ids        *)
(* (positive integers), the heap of elements as the function ent from ids  *)
(* to nodeEntry records, and q as the sequence of the ids linked into the  *)
(* list, Front first.  An element that list.Remove has unlinked keeps its  *)
(* Value but has list == nil: it is an id of ent that is not in q.         *)
(* A nil-pointer dereference is a Go run-time panic: it ends the program   *)
(* (panicked = TRUE) in the state the fields had at that moment.           *)
(***************************************************************************)
EXTENDS Integers, Sequences, FiniteSets

(* ---------------------------- bounds ---------------------------------- *)
\* the largest capacity NewCache and Resize are called with
MaxCap == 2

\* the capacities passed to NewCache and Resize: negative, zero, positive
Capacities == (0 - 1)..MaxCap

\* The cache is instantiated as the repository's tests instantiate it,
\* Cache[string, string], with keys and values such as the tests use.
Keys == {"a", "b"}
Values == {"A", "B"}

(* ------------------------ program constants --------------------------- *)
\* the nil *list.Element, and the zero values of K and V (var evictedKey K,
\* var value V)
Nil == 0
ZeroKey == ""
ZeroValue == ""

\* capacity, size, q, keysMap, hand: the fields of Cache; ent: the elements
\* the pointers refer to; panicked: a run-time panic ended the program;
\* last: the call made last and what it returned; touched: the elements a
\* call of Get has marked since the last eviction (history)
VARIABLES capacity, size, q, keysMap, hand, ent, panicked, last, touched

vars == <<capacity, size, q, keysMap, hand, ent, panicked, last, touched>>

(* ------------------------ container/list ------------------------------ *)
Range(s) == {s[i] : i \in 1..Len(s)}

IndexOf(s, e) == CHOOSE i \in 1..Len(s) : s[i] = e

\* mutant of Back: the first element is returned
BackIsFront(c) == IF Len(c.q) = 0 THEN Nil ELSE c.q[1]

\* l.Back(): the last element, nil when the list is empty
Back(c) == IF Len(c.q) = 0 THEN Nil ELSE c.q[Len(c.q)]

\* e.Prev(): nil when e is unlinked (e.list == nil) or e is the front
Prev(c, e) ==
  IF e \notin Range(c.q) THEN Nil
  ELSE IF IndexOf(c.q, e) = 1 THEN Nil
  ELSE c.q[IndexOf(c.q, e) - 1]

\* l.Remove(e): unlinks e when e.list == l, otherwise leaves the list alone
Remove(c, e) ==
  IF e \notin Range(c.q) THEN c
  ELSE [c EXCEPT !.q = SubSeq(c.q, 1, IndexOf(c.q, e) - 1)
                       \o SubSeq(c.q, IndexOf(c.q, e) + 1, Len(c.q))]

\* the address of a newly allocated element: any id no live pointer holds
NewElement(c) ==
  CHOOSE i \in 1..(Cardinality(DOMAIN c.ent) + 1) : i \notin DOMAIN c.ent

\* l.PushFront(v): allocates an element holding v and links it at the front
LinkFront(c, v, e) ==
  [c EXCEPT !.q = <<e>> \o c.q,
            !.ent = [i \in DOMAIN c.ent \cup {e} |-> IF i = e THEN v ELSE c.ent[i]]]

PushFront(c, v) == LinkFront(c, v, NewElement(c))

\* delete(m, k) on a Go map: removes k when present, no-op otherwise
MapDelete(m, k) == [x \in DOMAIN m \ {k} |-> m[x]]

\* m[k] = e on a Go map
MapPut(m, k, e) == [x \in DOMAIN m \cup {k} |-> IF x = k THEN e ELSE m[x]]

(* ----------------------------- Cache ---------------------------------- *)
\* the cache struct built from the state variables
Self ==
  [capacity |-> capacity, size |-> size, q |-> q, keysMap |-> keysMap,
   hand |-> hand, ent |-> ent]

\* mutant of init: the hand is left where it was
initKeepsHand(c) ==
  [c EXCEPT !.size = 0, !.q = <<>>, !.keysMap = <<>>]

\* c.init(): size 0, new empty list, new empty map, hand nil
init(c) ==
  [c EXCEPT !.size = 0, !.q = <<>>, !.keysMap = <<>>, !.hand = Nil,
            !.ent = <<>>]

NewCache(cap) ==
  init([capacity |-> cap, size |-> 0, q |-> <<>>, keysMap |-> <<>>,
        hand |-> Nil, ent |-> <<>>])

Size(c) == c.size

Capacity(c) == c.capacity

\* Keys(): the keys of keysMap, in no particular order
KeysOf(c) == DOMAIN c.keysMap

\* Items(): the key/value pairs reached through keysMap
Items(c) == {[Key |-> k, Value |-> c.ent[c.keysMap[k]].value] : k \in DOMAIN c.keysMap}

\* mutant of Contains: the lookup marks the entry as Get does
ContainsTouching(c, key) ==
  [c |-> IF key \in DOMAIN c.keysMap
         THEN [c EXCEPT !.ent[c.keysMap[key]].visited = TRUE] ELSE c,
   ret |-> key \in DOMAIN c.keysMap]

Contains(c, key) == [c |-> c, ret |-> key \in DOMAIN c.keysMap]

\* mutant of Get: the entry is not marked visited
GetNoVisit(c, key) ==
  IF key \notin DOMAIN c.keysMap
  THEN [c |-> c, value |-> ZeroValue, err |-> "ErrKeyNotFound"]
  ELSE [c |-> c, value |-> c.ent[c.keysMap[key]].value, err |-> "nil"]

Get(c, key) ==
  IF key \notin DOMAIN c.keysMap
  THEN [c |-> c, value |-> ZeroValue, err |-> "ErrKeyNotFound"]
  ELSE [c |-> [c EXCEPT !.ent[c.keysMap[key]].visited = TRUE],
        value |-> c.ent[c.keysMap[key]].value, err |-> "nil"]

Delete(c, key) ==
  IF key \notin DOMAIN c.keysMap
  THEN [c |-> c, value |-> ZeroValue, err |-> "ErrKeyNotFound"]
  ELSE [c |-> Remove([c EXCEPT !.keysMap = MapDelete(c.keysMap, key)],
                     c.keysMap[key]),
        value |-> c.ent[c.keysMap[key]].value, err |-> "nil"]

\* curr = curr.Prev(); if curr == nil { curr = c.q.Back() }
PrevOrBack(c, e) == IF Prev(c, e) = Nil THEN Back(c) ELSE Prev(c, e)

\* mutant of Scan: the visited flag is ignored, the entry scanned first goes
ScanNoSecondChance(c, curr) == [c |-> c, curr |-> curr, panic |-> curr = Nil]

\* the scan loop of evict: curr.Value on a nil curr panics
RECURSIVE Scan(_, _)
Scan(c, curr) ==
  IF curr = Nil THEN [c |-> c, curr |-> Nil, panic |-> TRUE]
  ELSE IF ~c.ent[curr].visited THEN [c |-> c, curr |-> curr, panic |-> FALSE]
  ELSE Scan([c EXCEPT !.ent[curr].visited = FALSE], PrevOrBack(c, curr))

\* evict after its scan loop has ended in s: the hand moves to curr.Prev(),
\* curr is removed from the list, size drops, curr's key leaves keysMap
evictFound(s) ==
  IF s.panic
  THEN [c |-> s.c, key |-> ZeroKey, err |-> "panic", victim |-> Nil]
  ELSE [c |-> [Remove(s.c, s.curr) EXCEPT
                 !.hand = Prev(s.c, s.curr),
                 !.size = s.c.size - 1,
                 !.keysMap = MapDelete(s.c.keysMap, s.c.ent[s.curr].key)],
        key |-> s.c.ent[s.curr].key, err |-> "nil", victim |-> s.curr]

\* mutant of evict: the scan starts without the test c.size == 0
evictUnguarded(c) ==
  evictFound(Scan(c, IF c.hand = Nil THEN Back(c) ELSE c.hand))

evict(c) ==
  IF c.size = 0
  THEN [c |-> c, key |-> ZeroKey, err |-> "ErrEmptyCache", victim |-> Nil]
  ELSE evictFound(Scan(c, IF c.hand = Nil THEN Back(c) ELSE c.hand))

Evict(c) == evict(c)

\* mutant of AtCapacity: the test written c.size > c.capacity
AtCapacityStrict(c) == c.size > c.capacity

\* the test c.size == c.capacity that makes Set evict
AtCapacity(c) == c.size = c.capacity

\* c.keysMap[key] = element; c.size++ for the element just pushed
Register(c, key) ==
  [c EXCEPT !.keysMap = MapPut(c.keysMap, key, c.q[1]), !.size = c.size + 1]

\* Set after its eviction, if any, has returned ev
Insert(ev, key, value) ==
  IF ev.err = "panic"
  THEN [c |-> ev.c, hit |-> FALSE, evicted |-> <<>>, victims |-> <<>>,
        panic |-> TRUE]
  ELSE [c |-> Register(PushFront(ev.c, [visited |-> FALSE, key |-> key,
                                        value |-> value]), key),
        hit |-> FALSE,
        evicted |-> IF ev.err = "nil" THEN <<ev.key>> ELSE <<>>,
        victims |-> IF ev.err = "nil" THEN <<ev.victim>> ELSE <<>>,
        panic |-> FALSE]

Set(c, key, value) ==
  IF c.capacity <= 0
  THEN [c |-> c, hit |-> FALSE, evicted |-> <<>>, victims |-> <<>>, panic |-> FALSE]
  ELSE IF Get(c, key).err = "nil"
  THEN [c |-> Get(c, key).c, hit |-> TRUE, evicted |-> <<>>, victims |-> <<>>,
        panic |-> FALSE]
  ELSE Insert(IF AtCapacity(c) THEN evict(c)
              ELSE [c |-> c, key |-> ZeroKey, err |-> "none", victim |-> Nil],
              key, value)

\* the eviction loop of Resize: keysToEvictCount calls of evict; ResizeStep
\* is the rest of the loop once a call has returned ev
RECURSIVE ResizeLoop(_, _, _, _)
RECURSIVE ResizeStep(_, _, _, _)
ResizeStep(ev, keysToEvictCount, evictedKeys, victims) ==
  IF ev.err = "panic"
  THEN [c |-> ev.c, evicted |-> evictedKeys, victims |-> victims, panic |-> TRUE]
  ELSE IF ev.err = "nil"
  THEN ResizeLoop(ev.c, keysToEvictCount - 1,
                  Append(evictedKeys, ev.key), Append(victims, ev.victim))
  ELSE ResizeLoop(ev.c, keysToEvictCount - 1, evictedKeys, victims)

ResizeLoop(c, keysToEvictCount, evictedKeys, victims) ==
  IF keysToEvictCount <= 0
  THEN [c |-> c, evicted |-> evictedKeys, victims |-> victims, panic |-> FALSE]
  ELSE ResizeStep(evict(c), keysToEvictCount, evictedKeys, victims)

\* c.capacity = newCapacity once the loop has ended in r
ResizeDone(r, newCapacity) ==
  IF r.panic THEN r ELSE [r EXCEPT !.c.capacity = newCapacity]

Resize(c, newCapacity) ==
  IF newCapacity >= c.capacity
  THEN [c |-> [c EXCEPT !.capacity = newCapacity], evicted |-> <<>>,
        victims |-> <<>>, panic |-> FALSE]
  ELSE ResizeDone(ResizeLoop(c, Size(c) - newCapacity, <<>>, <<>>), newCapacity)

Clear(c) == init(c)

(* ------------------------- state machine ------------------------------ *)
\* the elements some pointer of the cache still reaches; the rest is garbage
Live(c) == (Range(c.q) \cup {c.keysMap[k] : k \in DOMAIN c.keysMap} \cup {c.hand}) \ {Nil}

\* Addresses carry no meaning: caches that differ only in the addresses of
\* their elements are the same cache.  Address(c, e) is the canonical address
\* of e: its position in the list, unlinked elements following the list.
Address(c, e) ==
  IF e = Nil THEN Nil
  ELSE IF e \in Range(c.q) THEN IndexOf(c.q, e)
  ELSE Len(c.q) + Cardinality({x \in Live(c) \ Range(c.q) : x <= e})

Install(c, t) ==
  /\ touched' = {Address(c, e) : e \in t \cap Range(c.q)}
  /\ capacity' = c.capacity
  /\ size' = c.size
  /\ q' = [i \in 1..Len(c.q) |-> Address(c, c.q[i])]
  /\ keysMap' = [k \in DOMAIN c.keysMap |-> Address(c, c.keysMap[k])]
  /\ hand' = Address(c, c.hand)
  /\ ent' = [i \in {Address(c, e) : e \in Live(c)} |->
              c.ent[CHOOSE e \in Live(c) : Address(c, e) = i]]

Result(op, key, val, ret, err, evicted, victims, hit) ==
  [op |-> op, key |-> key, val |-> val, ret |-> ret, err |-> err,
   evicted |-> evicted, victims |-> victims, hit |-> hit,
   touched |-> {}, unvisited |-> FALSE]

\* what a call that evicted records of the state its first eviction began in:
\* the elements Get had marked, and whether some entry was unvisited
Evicting(r, victims) ==
  IF victims = <<>> THEN r
  ELSE [r EXCEPT !.touched = touched,
                 !.unvisited = \E e \in Range(q) : ~ent[e].visited]

Init ==
  /\ \E cap \in Capacities :
       /\ capacity = NewCache(cap).capacity
       /\ size = NewCache(cap).size
       /\ q = NewCache(cap).q
       /\ keysMap = NewCache(cap).keysMap
       /\ hand = NewCache(cap).hand
       /\ ent = NewCache(cap).ent
  /\ panicked = FALSE
  /\ touched = {}
  /\ last = Result("NewCache", ZeroKey, ZeroValue, ZeroValue, "nil", <<>>, <<>>, FALSE)

SetReturns(r, key, value) ==
  /\ Install(r.c, IF r.victims = <<>> THEN touched ELSE {})
  /\ panicked' = r.panic
  /\ last' = Evicting(Result("Set", key, value, ZeroValue,
                             IF r.panic THEN "panic" ELSE "nil",
                             r.evicted, r.victims, r.hit), r.victims)

DoSet ==
  /\ ~panicked
  /\ \E key \in Keys, value \in Values : SetReturns(Set(Self, key, value), key, value)

GetReturns(r, key) ==
  /\ Install(r.c, IF r.err = "nil" THEN touched \cup {keysMap[key]} ELSE touched)
  /\ panicked' = FALSE
  /\ last' = Result("Get", key, ZeroValue, r.value, r.err, <<>>, <<>>, r.err = "nil")

DoGet ==
  /\ ~panicked
  /\ \E key \in Keys : GetReturns(Get(Self, key), key)

ContainsReturns(r, key) ==
  /\ Install(r.c, touched)
  /\ panicked' = FALSE
  /\ last' = Result("Contains", key, ZeroValue, ZeroValue, "nil", <<>>, <<>>, r.ret)

DoContains ==
  /\ ~panicked
  /\ \E key \in Keys : ContainsReturns(Contains(Self, key), key)

DeleteReturns(r, key) ==
  /\ Install(r.c, touched)
  /\ panicked' = FALSE
  /\ last' = Result("Delete", key, ZeroValue, r.value, r.err, <<>>, <<>>,
                    r.err = "nil")

DoDelete ==
  /\ ~panicked
  /\ \E key \in Keys : DeleteReturns(Delete(Self, key), key)

EvictReturns(r) ==
  /\ Install(r.c, IF r.err = "nil" THEN {} ELSE touched)
  /\ panicked' = (r.err = "panic")
  /\ last' = Evicting(Result("Evict", r.key, ZeroValue, ZeroValue, r.err,
                             IF r.err = "nil" THEN <<r.key>> ELSE <<>>,
                             IF r.err = "nil" THEN <<r.victim>> ELSE <<>>, FALSE),
                      IF r.err = "nil" THEN <<r.victim>> ELSE <<>>)

DoEvict ==
  /\ ~panicked
  /\ EvictReturns(Evict(Self))

ResizeReturns(r) ==
  /\ Install(r.c, IF r.victims = <<>> THEN touched ELSE {})
  /\ panicked' = r.panic
  /\ last' = Evicting(Result("Resize", ZeroKey, ZeroValue, ZeroValue,
                             IF r.panic THEN "panic" ELSE "nil",
                             r.evicted, r.victims, FALSE), r.victims)

DoResize ==
  /\ ~panicked
  /\ \E newCapacity \in Capacities :
       ResizeReturns(Resize(Self, newCapacity))

DoClear ==
  /\ ~panicked
  /\ Install(Clear(Self), {})
  /\ panicked' = FALSE
  /\ last' = Result("Clear", ZeroKey, ZeroValue, ZeroValue, "nil", <<>>, <<>>, FALSE)

Next ==
  \/ DoSet
  \/ DoGet
  \/ DoContains
  \/ DoDelete
  \/ DoEvict
  \/ DoResize
  \/ DoClear

Spec == Init /\ [][Next]_vars

(* --------------------------- observations ----------------------------- *)
\* the entries of the entry store, Front (head) first
RECURSIVE EntriesOf(_, _)
EntriesOf(c, s) ==
  IF s = <<>> THEN <<>> ELSE <<c.ent[Head(s)]>> \o EntriesOf(c, Tail(s))

Entries(c) == EntriesOf(c, c.q)

\* the keys the entries of the entry store carry
StoreKeys(c) == {c.ent[e].key : e \in Range(c.q)}

\* s without its i-th element
Without(s, i) == SubSeq(s, 1, i - 1) \o SubSeq(s, i + 1, Len(s))

(* ------------------------------ C1 ------------------------------------ *)
\* C1: in every reachable state Size() equals the number of keys in the
\* index and the number of entries in the entry store, so that
\* len(Keys()) == len(Items()) == Size().
C1_SizeIsCardinality ==
  /\ Size(Self) = Cardinality(DOMAIN keysMap)
  /\ Size(Self) = Len(q)
  /\ Cardinality(KeysOf(Self)) = Size(Self)
  /\ Cardinality(Items(Self)) = Size(Self)

(* ------------------------------ C2 ------------------------------------ *)
\* C2: Delete(k) on a present key removes k's entry from the entry store and
\* from the index, decrements Size() by exactly one and returns the value
\* stored for k; afterwards Contains(k) is false and Get(k) fails with
\* KeyNotFound.
C2_DeleteRemovesAndDecrements ==
  [][(last'.op = "Delete" /\ last'.key \in DOMAIN keysMap) =>
       /\ last'.err = "nil"
       /\ last'.ret = ent[keysMap[last'.key]].value
       /\ Entries(Self') = Without(Entries(Self), IndexOf(q, keysMap[last'.key]))
       /\ DOMAIN keysMap' = DOMAIN keysMap \ {last'.key}
       /\ size' = size - 1
       /\ ~Contains(Self', last'.key).ret
       /\ Get(Self', last'.key).err = "ErrKeyNotFound"]_vars

(* ------------------------------ C3 ------------------------------------ *)
\* C3: Evict on a cache that holds no entries fails with EmptyCache and does
\* not panic, however the cache came to hold no entries.
C3_EvictOnEmptyIsEmptyCache ==
  [][(last'.op = "Evict" /\ Len(q) = 0 /\ DOMAIN keysMap = {}) =>
       (last'.err = "ErrEmptyCache" /\ ~panicked')]_vars

(* ------------------------------ C4 ------------------------------------ *)
\* C4: in every reachable state the Hand is unset or references an entry
\* that is currently in the entry store.
C4_HandInStore == hand = Nil \/ hand \in Range(q)

(* ------------------------------ C5 ------------------------------------ *)
\* C5: a successful Evict returns the key of an entry the cache held right
\* before the call; afterwards that key is in neither the index nor the
\* entry store, every other held key is still held, and the number of held
\* entries has dropped by exactly one.
C5_EvictRemovesOneHeldKey ==
  [][(last'.op = "Evict" /\ last'.err = "nil") =>
       /\ last'.key \in StoreKeys(Self) \cap DOMAIN keysMap
       /\ last'.key \notin DOMAIN keysMap'
       /\ last'.key \notin StoreKeys(Self')
       /\ StoreKeys(Self') = StoreKeys(Self) \ {last'.key}
       /\ DOMAIN keysMap' = DOMAIN keysMap \ {last'.key}
       /\ Len(q') = Len(q) - 1]_vars

(* ------------------------------ C6 ------------------------------------ *)
\* the SIEVE rule on a sequence of entries es (head first) and a hand
\* position h (0: unset): scan from h, or from the tail, toward the head,
\* wrapping from the head to the tail, clearing the visited flags passed
RECURSIVE RefScan(_, _)
RefScan(es, i) ==
  IF ~es[i].visited THEN [es |-> es, i |-> i]
  ELSE RefScan([es EXCEPT ![i].visited = FALSE], IF i = 1 THEN Len(es) ELSE i - 1)

RefEvict(es, h) ==
  LET s == RefScan(es, IF h = 0 THEN Len(es) ELSE h)
  IN  [key |-> s.es[s.i].key, es |-> Without(s.es, s.i), hand |-> s.i - 1]

\* the position of the Hand in the entry store, 0 when it references none
HandPosition == IF hand \in Range(q) THEN IndexOf(q, hand) ELSE 0

EvictAsReference ==
  LET r == RefEvict(Entries(Self), HandPosition)
  IN  /\ last'.err = "nil"
      /\ last'.key = r.key
      /\ Entries(Self') = r.es
      /\ hand' = r.hand

\* C6: Evict on a non-empty cache selects its victim by the SIEVE scan from
\* the Hand (from the tail when unset) toward the head, clearing the visited
\* flags it passes, evicts the first unvisited entry and leaves the Hand on
\* the victim's predecessor: the result equals the reference rule.
C6_EvictIsSieveScan ==
  [][(last'.op = "Evict" /\ Len(q) > 0) => EvictAsReference]_vars

\* the same, in the states where the Hand is unset or references an entry of
\* the entry store
EvictIsSieveScanFromValidHand ==
  [][(last'.op = "Evict" /\ Len(q) > 0 /\ C4_HandInStore) => EvictAsReference]_vars

(* ------------------------------ C7 ------------------------------------ *)
\* C7: in every reachable state 0 <= Size() <= Capacity() when
\* Capacity() > 0, and Size() == 0 and nothing is held when Capacity() <= 0.
C7_SizeWithinCapacity ==
  /\ capacity > 0 => (0 <= Size(Self) /\ Size(Self) <= Capacity(Self))
  /\ capacity <= 0 => (Size(Self) = 0 /\ Len(q) = 0 /\ KeysOf(Self) = {})

\* a Resize to a capacity <= 0 has evicted what was held
C7_Witness ==
  /\ last.op = "Resize" /\ last.err = "nil" /\ capacity <= 0
  /\ Len(last.evicted) >= 2

EvictionOrder(c) == ResizeLoop(c, c.size, <<>>, <<>>).evicted

\* C9: Contains(k) changes nothing: entries, order, visited flags, index,
\* Hand, size and capacity stay as they are, and so do the keys later
\* evictions return.
C9_ContainsChangesNothing ==
  [][last'.op = "Contains" =>
       /\ UNCHANGED <<capacity, size, q, keysMap, hand, ent>>
       /\ EvictionOrder(Self') = EvictionOrder(Self)
       /\ last'.hit = (last'.key \in DOMAIN keysMap)]_vars

\* Contains has answered true for a key whose entry is still unvisited
C9_Witness ==
  /\ last.op = "Contains" /\ last.hit
  /\ ~ent[keysMap[last.key]].visited
  /\ Len(q) > 1

(* ------------------------------ C10 ----------------------------------- *)
\* C10: Set(k, v2) on a key that is present with value v1 leaves the stored
\* value, the size, the entry order and the Hand unchanged and evicts
\* nothing, even when the cache is full; it only sets k's visited flag.
C10_SetExistingOnlyVisits ==
  [][(last'.op = "Set" /\ last'.key \in DOMAIN keysMap) =>
       /\ ent' = [ent EXCEPT ![keysMap[last'.key]].visited = TRUE]
       /\ UNCHANGED <<capacity, size, q, keysMap, hand>>
       /\ last'.hit /\ last'.evicted = <<>> /\ ~panicked']_vars

\* Set of a present key with another value on a full cache
C10_Witness ==
  /\ last.op = "Set" /\ last.hit
  /\ size = capacity /\ Len(q) = capacity
  /\ ent[keysMap[last.key]].value # last.val
  /\ ent[keysMap[last.key]].visited

(* ------------------------------ C11 ----------------------------------- *)
\* the entry Set pushes for the call recorded in r
NewEntry(r) == [visited |-> FALSE, key |-> r.key, value |-> r.val]

\* C11: Set of an absent key on a cache with capacity > 0 evicts if and only
\* if the cache already holds capacity entries, and then evicts exactly one
\* entry; the new key is inserted at the head with visited == false, and the
\* number of held entries never exceeds capacity.
C11_SetAbsentEvictsIffFull ==
  [][(last'.op = "Set" /\ capacity > 0 /\ last'.key \notin DOMAIN keysMap) =>
       /\ ~panicked'
       /\ (last'.evicted # <<>>) <=> (Len(q) = capacity)
       /\ last'.evicted # <<>> =>
            /\ Len(last'.evicted) = 1
            /\ \E i \in 1..Len(q) :
                 Tail(Entries(Self')) = Without(Entries(Self), i)
       /\ last'.evicted = <<>> => Tail(Entries(Self')) = Entries(Self)
       /\ Len(q') >= 1 /\ Entries(Self')[1] = NewEntry(last')
       /\ Len(q') <= capacity]_vars

(* ------------------------------ C12 ----------------------------------- *)
\* C12: in any reachable state of a cache with capacity > 0, after Set(k, v)
\* with k not previously present, Get(k) returns v without error and
\* Contains(k) is true.
C12_SetThenGet ==
  [][(last'.op = "Set" /\ capacity > 0 /\ last'.key \notin DOMAIN keysMap) =>
       /\ ~panicked'
       /\ Get(Self', last'.key).err = "nil"
       /\ Get(Self', last'.key).value = last'.val
       /\ Contains(Self', last'.key).ret]_vars

\* the same for the calls of Set that return
SetThenGetWhenSetReturns ==
  [][(last'.op = "Set" /\ capacity > 0 /\ last'.key \notin DOMAIN keysMap
      /\ ~panicked') =>
       /\ Get(Self', last'.key).err = "nil"
       /\ Get(Self', last'.key).value = last'.val
       /\ Contains(Self', last'.key).ret]_vars

(* ------------------------------ C13 ----------------------------------- *)
Max(a, b) == IF a >= b THEN a ELSE b

Min(a, b) == IF a <= b THEN a ELSE b

\* the keys of the entries es, in order
RECURSIVE KeysIn(_)
KeysIn(es) == IF es = <<>> THEN <<>> ELSE <<Head(es).key>> \o KeysIn(Tail(es))

\* s is t with some elements left out
RECURSIVE IsSubSeq(_, _)
IsSubSeq(s, t) ==
  IF s = <<>> THEN TRUE
  ELSE IF t = <<>> THEN FALSE
  ELSE IF Head(s) = Head(t) THEN IsSubSeq(Tail(s), Tail(t))
  ELSE IsSubSeq(s, Tail(t))

\* C13: Resize(n) with n >= capacity evicts nothing, returns an empty list
\* and leaves entries, flags and Hand unchanged; Resize(n) with n < capacity
\* evicts exactly max(0, old_size - n) entries (or every entry, if the cache
\* empties first) and returns their keys in eviction order; in both cases
\* Capacity() == n afterwards.  A Resize that returns has set capacity to
\* n, so n is capacity'.
C13_ResizeEvictsExcess ==
  [][last'.op = "Resize" =>
       /\ ~panicked'
       /\ capacity' >= capacity =>
            /\ last'.evicted = <<>>
            /\ UNCHANGED <<size, q, keysMap, hand, ent>>
       /\ capacity' < capacity =>
            /\ Len(last'.evicted) = Min(Len(q), Max(0, size - capacity'))
            /\ Len(q') = Len(q) - Len(last'.evicted)
            /\ IsSubSeq(KeysIn(Entries(Self')), KeysIn(Entries(Self)))
            /\ StoreKeys(Self') = StoreKeys(Self) \ Range(last'.evicted)
            /\ last'.evicted =
                 SubSeq(EvictionOrder(Self), 1, Len(last'.evicted))]_vars

\* the part of C13 about n >= capacity
ResizeUpEvictsNothing ==
  [][(last'.op = "Resize" /\ capacity' >= capacity /\ ~panicked') =>
       /\ last'.evicted = <<>>
       /\ UNCHANGED <<size, q, keysMap, hand, ent>>]_vars

(* ------------------------------ C14 ----------------------------------- *)
\* C14: Clear, from any reachable state, yields the empty state: Size() == 0,
\* empty entry store, empty index (Keys() empty), Hand unset; Capacity() is
\* unchanged, and the cache is then in the state of a freshly constructed
\* cache of that capacity, so that every later call behaves as on that one.
C14_ClearYieldsEmpty ==
  [][last'.op = "Clear" =>
       /\ Size(Self') = 0
       /\ Entries(Self') = <<>>
       /\ keysMap' = <<>> /\ KeysOf(Self') = {}
       /\ hand' = Nil
       /\ Capacity(Self') = Capacity(Self)
       /\ Self' = NewCache(capacity)
       /\ ~panicked']_vars

\* Clear has returned on a cache of positive capacity
C14_Witness ==
  /\ last.op = "Clear" /\ capacity > 0
  /\ Self = NewCache(capacity)

(* ------------------------------ C15 ----------------------------------- *)
\* C15: a failing operation mutates nothing: Get(k) or Delete(k) on an
\* absent key returns KeyNotFound, and Evict on a cache with Size() == 0
\* returns EmptyCache, and in each case entries, order, visited flags, index,
\* Hand, size and capacity are all unchanged.
C15_FailureMutatesNothing ==
  [][/\ (last'.op \in {"Get", "Delete"} /\ last'.key \notin DOMAIN keysMap) =>
          /\ last'.err = "ErrKeyNotFound"
          /\ last'.ret = ZeroValue
          /\ UNCHANGED <<capacity, size, q, keysMap, hand, ent>>
          /\ ~panicked'
     /\ (last'.op = "Evict" /\ Size(Self) = 0) =>
          /\ last'.err = "ErrEmptyCache"
          /\ last'.key = ZeroKey
          /\ UNCHANGED <<capacity, size, q, keysMap, hand, ent>>
          /\ ~panicked']_vars

\* Delete has failed on a cache that holds a visited entry and has its Hand
\* set
C15_Witness ==
  /\ last.op = "Delete" /\ last.err = "ErrKeyNotFound"
  /\ hand # Nil
  /\ \E e \in Range(q) : ent[e].visited

(* ------------------------------ C16 ----------------------------------- *)
\* C16: in every reachable state the index and the entry store are in
\* one-to-one correspondence: every key in the index maps to an entry that is
\* in the entry store and carries that key, every entry in the entry store is
\* the one its key maps to in the index, and no key occurs in two entries;
\* hence Keys() is exactly the set of keys held in the entry store.
C16_IndexMatchesStore ==
  /\ \A k \in DOMAIN keysMap :
       keysMap[k] \in Range(q) /\ ent[keysMap[k]].key = k
  /\ \A e \in Range(q) :
       ent[e].key \in DOMAIN keysMap /\ keysMap[ent[e].key] = e
  /\ \A i, j \in 1..Len(q) : ent[q[i]].key = ent[q[j]].key => i = j
  /\ KeysOf(Self) = StoreKeys(Self)

(* ------------------------------ C17 ----------------------------------- *)
\* the keys and values of the entries es, in order, without their flags
RECURSIVE Unflagged(_)
Unflagged(es) ==
  IF es = <<>> THEN <<>>
  ELSE <<[key |-> Head(es).key, value |-> Head(es).value]>> \o Unflagged(Tail(es))

\* the entry store after the step is the one before it less one entry
OneEntryRemoved ==
  \E i \in 1..Len(q) :
    Unflagged(Entries(Self')) = Without(Unflagged(Entries(Self)), i)

\* C17: the relative order of entries in the entry store is insertion order
\* only: Get, Contains and Set on an existing key never reposition an entry,
\* and Delete and Evict remove one entry without reordering the remaining
\* ones.
C17_OrderIsInsertionOrder ==
  [][/\ last'.op \in {"Get", "Contains"} =>
          Unflagged(Entries(Self')) = Unflagged(Entries(Self))
     /\ (last'.op = "Set" /\ last'.key \in DOMAIN keysMap) =>
          Unflagged(Entries(Self')) = Unflagged(Entries(Self))
     /\ (last'.op = "Delete" /\ last'.err = "nil") => OneEntryRemoved
     /\ (last'.op = "Evict" /\ last'.err = "nil") => OneEntryRemoved]_vars

\* no call repositions an entry: the entries after a call, less the one Set
\* has pushed at the head, are entries from before the call in their order
EntriesKeepTheirOrder ==
  [][IsSubSeq(Unflagged(IF last'.op = "Set" /\ ~last'.hit /\ Len(q') > 0 /\ ~panicked'
                        THEN Tail(Entries(Self')) ELSE Entries(Self')),
              Unflagged(Entries(Self)))]_vars

(* ------------------------------ C18 ----------------------------------- *)
\* curr := c.hand; if curr == nil { curr = c.q.Back() }
ScanStart(c) == IF c.hand = Nil THEN Back(c) ELSE c.hand

\* the number of elements whose entry the scan loop of evict reads, from
\* curr on, before it breaks or panics
RECURSIVE Inspected(_, _)
Inspected(c, curr) ==
  IF curr = Nil THEN 0
  ELSE IF ~c.ent[curr].visited THEN 1
  ELSE 1 + Inspected([c EXCEPT !.ent[curr].visited = FALSE], PrevOrBack(c, curr))

\* C18: the eviction scan always terminates: in every reachable state with
\* Size() > 0, Evict inspects at most (number of held entries + 1) entries
\* before it finds a victim, even when every entry is visited.
C18_ScanIsBounded ==
  [][(last'.op = "Evict" /\ Size(Self) > 0) =>
       /\ last'.err = "nil"
       /\ Inspected(Self, ScanStart(Self)) <= Len(q) + 1]_vars

\* the scan ends, with a victim or in a panic, after at most (number of held
\* entries + 2) elements; from a Hand that is unset or in a non-empty entry
\* store it finds a victim after at most (number of held entries + 1)
ScanEnds ==
  [][last'.op = "Evict" =>
       /\ Inspected(Self, ScanStart(Self)) <= Len(q) + 2
       /\ (Size(Self) > 0 /\ Len(q) > 0 /\ C4_HandInStore) =>
            /\ last'.err = "nil"
            /\ Inspected(Self, ScanStart(Self)) <= Len(q) + 1]_vars

\* the bound of C18 for the scans that find a victim; violated from a Hand
\* that references a visited element outside the entry store
ScanWithinHeldPlusOne ==
  [][(last'.op = "Evict" /\ last'.err = "nil") =>
       Inspected(Self, ScanStart(Self)) <= Len(q) + 1]_vars

(* ------------------------------ C19 ----------------------------------- *)
\* The callers C19 is about: they never call Get or Delete and call Set only
\* with keys that are absent.
DoSetAbsent ==
  /\ ~panicked
  /\ \E key \in Keys \ DOMAIN keysMap, value \in Values :
       SetReturns(Set(Self, key, value), key, value)

NextFifo ==
  \/ DoSetAbsent
  \/ DoContains
  \/ DoEvict
  \/ DoResize
  \/ DoClear

SpecFifo == Init /\ [][NextFifo]_vars

\* the keys of the n entries of es inserted first, oldest first
RECURSIVE Oldest(_, _)
Oldest(es, n) ==
  IF n = 0 \/ es = <<>> THEN <<>>
  ELSE <<es[Len(es)].key>> \o Oldest(SubSeq(es, 1, Len(es) - 1), n - 1)

\* C19: when no entry is ever visited (no Get and no Set on an existing key)
\* and Delete is never called, the cache behaves like a FIFO queue of bounded
\* capacity: every eviction, whether from Evict, Set at capacity or Resize,
\* removes the oldest-inserted held key, wherever earlier evictions left the
\* Hand; Evict fails only on a cache that holds nothing, and nothing panics.
C19_FifoWithoutVisits ==
  [][/\ ~panicked'
     /\ last'.evicted = Oldest(Entries(Self), Len(last'.evicted))
     /\ Len(q') <= Max(capacity', 0)
     /\ last'.op # "Clear" =>
          Unflagged(IF last'.op = "Set" /\ capacity > 0
                    THEN Tail(Entries(Self')) ELSE Entries(Self'))
            = SubSeq(Unflagged(Entries(Self)), 1, Len(q) - Len(last'.evicted))
     /\ last'.op = "Evict" =>
          /\ Len(q) > 0 => (last'.err = "nil" /\ Len(last'.evicted) = 1)
          /\ Len(q) = 0 => last'.err = "ErrEmptyCache"
     /\ last'.op = "Set" => (capacity > 0 => Entries(Self')[1] = NewEntry(last'))
     /\ (last'.op = "Set" /\ capacity > 0) =>
          (last'.evicted # <<>>) <=> (Len(q) = capacity)]_vars

\* a Resize has evicted two keys: its second eviction began at the Hand its
\* first one left
C19_Witness ==
  /\ last.op = "Resize" /\ last.err = "nil"
  /\ Len(last.evicted) = 2 /\ last.evicted[1] # last.evicted[2]

(* ------------------------------ C20 ----------------------------------- *)
\* C20: if at the start of an Evict at least one held entry is unvisited, the
\* evicted entry is a held entry that was unvisited at the start of the
\* call; an entry that was visited at that moment is evicted only when every
\* held entry was visited.
C20_EvictsUnvisitedFirst ==
  [][last'.op = "Evict" =>
       /\ (\E e \in Range(q) : ~ent[e].visited) =>
            /\ last'.err = "nil"
            /\ last'.victims[1] \in Range(q)
            /\ ~ent[last'.victims[1]].visited
       /\ (last'.err = "nil" /\ ent[last'.victims[1]].visited) =>
            \A e \in Range(q) : ent[e].visited]_vars

\* the same of the element Evict takes as its victim, held or not
VictimWasUnvisited ==
  [][last'.op = "Evict" =>
       /\ (\E e \in Range(q) : ~ent[e].visited) =>
            /\ last'.err = "nil"
            /\ ~ent[last'.victims[1]].visited
       /\ (last'.err = "nil" /\ ent[last'.victims[1]].visited) =>
            \A e \in Range(q) : ent[e].visited]_vars

====
